---- MODULE Spec2Model ----
(***************************************************************************)
(* Vector store exercises of mslearn-azure-ai: the Cosmos DB index         *)
(* comparison client (bulk_load_documents, store_to_all_containers,        *)
(* compare_index_performance) and the Redis vector apps (VectorManager,    *)
(* search_similar_vectors).                                                *)
(*                                                                         *)
(* Spec        bulk_load_documents of the starter optimize-query client    *)
(* SpecCompare compare_index_performance / compare_filtered_performance    *)
(* SpecVec     main.py of the Redis vector app (input_search_vectors)      *)
(* SpecLive    the same under weak fairness of the threads' steps          *)
(* SpecProducts VectorManager of the Redis vector app (the constructor,    *)
(*             store, retrieve, search, delete and clear)                  *)
(* SpecMetric  calculate_similarity of main.py on its own                  *)
(* SpecFanout  the sequential and the parallel store_to_all_containers     *)
(* SpecStore   store_vector_document on one container                      *)
(* SpecAgent   save_task_state / get_task_state of agent_tools.py          *)
(***************************************************************************)
EXTENDS Integers, Sequences, FiniteSets, TLC

\* ------------------------------------------------------------------------
\* Bounds of the model
\* ------------------------------------------------------------------------

\* len(documents) of the batch handed to bulk_load_documents
NumDocs == 3

\* ThreadPoolExecutor(max_workers=10) at index_functions.py:149; the pool is
\* scaled down so that a batch of NumDocs records fills it
PoolWorkers == 2

\* upsert_item calls that the store rejects during one bulk load
MaxFailures == 2

\* Python floats carry 53 significant bits; the model's floats carry
\* MantissaBits, with the same round-to-nearest-even addition
MantissaBits == 2

\* ------------------------------------------------------------------------
\* Program constants
\* ------------------------------------------------------------------------

CONTAINER_FLAT == "vectors-flat"

CONTAINER_QUANTIZED == "vectors-quantized"

CONTAINER_DISKANN == "vectors-diskann"

\* the list [CONTAINER_FLAT, CONTAINER_QUANTIZED, CONTAINER_DISKANN]
ContainerList == <<CONTAINER_FLAT, CONTAINER_QUANTIZED, CONTAINER_DISKANN>>

Containers == {ContainerList[k] : k \in 1..Len(ContainerList)}

\* ThreadPoolExecutor(max_workers=3) inside store_to_all_containers
INNER_WORKERS == 3

\* the keys of total_ru and of the comparison map
IndexTypes == {"flat", "quantizedFlat", "diskANN"}

\* the container behind each key of total_ru / comparison
ContainerOf(index_type) ==
    CASE index_type = "flat" -> CONTAINER_FLAT
      [] index_type = "quantizedFlat" -> CONTAINER_QUANTIZED
      [] index_type = "diskANN" -> CONTAINER_DISKANN

\* ------------------------------------------------------------------------
\* Python float addition, round to nearest, ties to even
\* ------------------------------------------------------------------------

Pow2(n) == 2 ^ n

\* the number of low bits a non-negative integer x loses to fit p bits
ExcessBits(x, p) ==
    IF x < Pow2(p) THEN 0
    ELSE CHOOSE e \in 1..16 :
           /\ x \div Pow2(e) < Pow2(p)
           /\ x \div Pow2(e - 1) >= Pow2(p)

\* x rounded to p significant bits, ties to even
RoundBits(x, p) ==
    LET e == ExcessBits(x, p)
        q == x \div Pow2(e)
        r == x % Pow2(e)
        half == Pow2(e) \div 2
    IN  IF e = 0 THEN x
        ELSE IF r > half \/ (r = half /\ q % 2 = 1)
             THEN (q + 1) * Pow2(e)
             ELSE q * Pow2(e)

RoundFloat(x) == RoundBits(x, MantissaBits)

\* a += b on floats
FloatAdd(a, b) == RoundFloat(a + b)

\* ------------------------------------------------------------------------
\* Inputs of bulk_load_documents
\* ------------------------------------------------------------------------

ChunkIds == {"chunk1", "chunk2", "chunk3", "chunk4"}

\* the chunk id of the i-th record of a batch of distinct records
ChunkIdOf(i) == CASE i = 1 -> "chunk1" [] i = 2 -> "chunk2" [] i = 3 -> "chunk3"
                  [] OTHER -> "chunk4"

\* the request charges the store reports: 1 and the first float whose
\* successor is not representable
Charges == {1, Pow2(MantissaBits)}

\* a document of the batch: has_keys is FALSE when a key that the submit
\* loop subscripts (document_id, chunk_id, content, embedding) is missing;
\* ru is the charge the store reports for its upsert into the flat container
Docs == [chunk_id : ChunkIds, has_keys : BOOLEAN, ru : Charges]

\* x-ms-request-charge of the upsert of doc into container c
RequestCharge(doc, c) ==
    CASE c = CONTAINER_FLAT -> doc.ru
      [] c = CONTAINER_QUANTIZED -> 2 * doc.ru
      [] c = CONTAINER_DISKANN -> 4 * doc.ru

\* the dictionary store_vector_document returns for doc and container c
StoreResult(doc, c) ==
    [chunk_id |-> doc.chunk_id, ru_charge |-> RequestCharge(doc, c)]

VARIABLES
    documents,      \* the batch, a sequence of Docs
    callback,       \* TRUE when progress_callback is not None
    pc,             \* position of the caller's thread in bulk_load_documents
    next_doc,       \* index of the next document of the submit loop
    fut,            \* state of each record's future
    result,         \* outcome held by a finished future
    results,        \* the map a store_to_all_containers call returned
    up,             \* state of the three uploads of each record
    calls,          \* upsert_item calls made per record and container
    container,      \* per container: chunk id -> index of the stored record
    consumed,       \* futures that as_completed has yielded
    loaded_count,
    total_ru,
    printed,        \* what the except branch printed, in order
    items,          \* per container: the documents a query can find
    comparison,     \* the map the last compare_* call returned
    request,        \* the arguments and store outcomes of that call
    vstore,         \* main.py: Redis hashes vector:* with a JSON vector
    shown,          \* main.py: the last search, its input and its display
    products,       \* VectorManager: Redis hashes with a binary embedding
    reply,          \* VectorManager: what the last call returned
    called,         \* VectorManager: the method of that call and its arguments
    operands,       \* the two vectors handed to calculate_similarity
    similarity,     \* what calculate_similarity returned for them
    index,          \* VectorManager: the definition of idx:products, <<>> before it is created
    fan_request,    \* the record and the store outcomes given to both fan-outs
    seq_items,      \* per container: ids stored by the sequential fan-out
    par_items,      \* per container: ids stored by the parallel fan-out
    seq_result,     \* what the sequential store_to_all_containers returned or raised
    par_result,     \* what the parallel store_to_all_containers returned or raised
    collection,     \* the items of one Cosmos container
    upserted,       \* the last store_vector_document call and what it returned
    utcnow,         \* the clock datetime.utcnow() reads
    unique_pair,    \* TRUE when task_checkpoints has a unique constraint on the pair
    task_checkpoints, \* the rows of the table
    nextval,        \* the sequence behind task_checkpoints.id
    current_timestamp, \* the clock of the database
    last_saved,     \* per pair: the arguments of its most recent committed save
    task_state      \* the last get_task_state call and what it returned

bulkVars == <<documents, callback, pc, next_doc, fut, result, results, up, calls,
              container, consumed, loaded_count, total_ru, printed>>

compareVars == <<items, comparison, request>>

vecVars == <<vstore, shown, products, reply, called, index>>

metricVars == <<operands, similarity>>

fanVars == <<fan_request, seq_items, par_items, seq_result, par_result>>

storeVars == <<collection, upserted, utcnow>>

agentVars == <<unique_pair, task_checkpoints, nextval, current_timestamp, last_saved,
               task_state>>

vars == <<bulkVars, compareVars, vecVars, metricVars, fanVars, storeVars, agentVars>>

DocIdx == 1..NumDocs

\* the batches of the model: records with distinct ids, or the last record
\* repeating the id of the first
Batches ==
    {d \in [DocIdx -> Docs] :
        /\ \A i \in DocIdx : i < NumDocs => d[i].chunk_id = ChunkIdOf(i)
        /\ d[NumDocs].chunk_id \in {ChunkIdOf(NumDocs), ChunkIdOf(1)}}

\* upsert_item calls the store has rejected
Failures == {ic \in DocIdx \X Containers : up[ic[1]][ic[2]] = "fail"}

\* the state of the other programs while one of them is looked at
CompareIdle ==
    /\ items = [c \in Containers |-> {}]
    /\ comparison = <<>>
    /\ request = <<>>

VecIdle ==
    /\ vstore = <<>>
    /\ shown = [kind |-> "nothing"]
    /\ products = <<>>
    /\ reply = <<>>
    /\ called = <<>>
    /\ index = <<>>

MetricIdle ==
    /\ operands = <<>>
    /\ similarity = <<>>

FanIdle ==
    /\ fan_request = <<>>
    /\ seq_items = [c \in Containers |-> {}]
    /\ par_items = [c \in Containers |-> {}]
    /\ seq_result = <<>>
    /\ par_result = <<>>

StoreIdle ==
    /\ collection = {}
    /\ upserted = <<>>
    /\ utcnow = 0

AgentIdle ==
    /\ unique_pair = FALSE
    /\ task_checkpoints = {}
    /\ nextval = 1
    /\ current_timestamp = 0
    /\ last_saved = <<>>
    /\ task_state = <<>>

\* nothing but the program under study runs
OthersIdle == FanIdle /\ StoreIdle /\ AgentIdle

BulkIdle ==
    /\ documents = <<>>
    /\ results = <<>>
    /\ callback = FALSE
    /\ pc = "idle"
    /\ next_doc = 1
    /\ fut = <<>>
    /\ result = <<>>
    /\ up = <<>>
    /\ calls = <<>>
    /\ container = [c \in Containers |-> [id \in ChunkIds |-> 0]]
    /\ consumed = {}
    /\ loaded_count = 0
    /\ total_ru = [t \in IndexTypes |-> 0]
    /\ printed = <<>>

Init ==
    /\ OthersIdle
    /\ CompareIdle
    /\ VecIdle
    /\ MetricIdle
    /\ results = [i \in DocIdx |-> <<>>]
    /\ documents \in Batches
    /\ callback \in BOOLEAN
    /\ pc = "submit"
    /\ next_doc = 1
    /\ fut = [i \in DocIdx |-> "new"]
    /\ result = [i \in DocIdx |-> "none"]
    /\ up = [i \in DocIdx |-> [c \in Containers |-> "idle"]]
    /\ calls = [i \in DocIdx |-> [c \in Containers |-> 0]]
    /\ container = [c \in Containers |-> [id \in ChunkIds |-> 0]]
    /\ consumed = {}
    /\ loaded_count = 0
    /\ total_ru = [t \in IndexTypes |-> 0]
    /\ printed = <<>>

\* records whose store_to_all_containers call is running in a pool worker
InFlight == {i \in DocIdx : fut[i] = "running"}

\* upload threads that have not finished their store_vector_document call
RunningUploads == {ic \in DocIdx \X Containers : up[ic[1]][ic[2]] = "running"}

\* executor.submit of the next document (the body of the for loop)
SubmitRecord ==
    /\ pc = "submit"
    /\ documents[next_doc].has_keys
    /\ fut' = [fut EXCEPT ![next_doc] = "queued"]
    /\ next_doc' = next_doc + 1
    /\ pc' = IF next_doc = NumDocs THEN "collect" ELSE "submit"
    /\ UNCHANGED <<documents, results, callback, result, up, calls, container,
                   consumed, loaded_count, total_ru, printed>>
    /\ UNCHANGED <<compareVars, vecVars, metricVars, fanVars, storeVars, agentVars>>

\* doc["document_id"] and the like raise KeyError in the caller's thread:
\* the with block is left and the executor shut down
SubmitKeyError ==
    /\ pc = "submit"
    /\ ~documents[next_doc].has_keys
    /\ pc' = "shutdown"
    /\ UNCHANGED <<documents, results, callback, next_doc, fut, result, up, calls,
                   container, consumed, loaded_count, total_ru, printed>>
    /\ UNCHANGED <<compareVars, vecVars, metricVars, fanVars, storeVars, agentVars>>

\* StartRecord with a pool that starts a thread for every queued record
StartRecord_Unbounded(i) ==
    /\ fut[i] = "queued"
    /\ \A j \in DocIdx : j < i => fut[j] # "queued"
    /\ fut' = [fut EXCEPT ![i] = "running"]
    /\ up' = [up EXCEPT ![i] = [c \in Containers |-> "running"]]
    /\ UNCHANGED <<documents, results, callback, pc, next_doc, result, calls,
                   container, consumed, loaded_count, total_ru, printed>>
    /\ UNCHANGED <<compareVars, vecVars, metricVars, fanVars, storeVars, agentVars>>

\* a pool worker takes the oldest queued record and starts
\* store_to_all_containers, which submits the three uploads
StartRecord(i) ==
    /\ fut[i] = "queued"
    /\ \A j \in DocIdx : j < i => fut[j] # "queued"
    /\ Cardinality(InFlight) < PoolWorkers
    /\ fut' = [fut EXCEPT ![i] = "running"]
    /\ up' = [up EXCEPT ![i] = [c \in Containers |-> "running"]]
    /\ UNCHANGED <<documents, results, callback, pc, next_doc, result, calls,
                   container, consumed, loaded_count, total_ru, printed>>
    /\ UNCHANGED <<compareVars, vecVars, metricVars, fanVars, storeVars, agentVars>>

\* what upsert_item may do: store the document or raise
StoreOutcomes == IF Cardinality(Failures) < MaxFailures THEN BOOLEAN ELSE {TRUE}

\* Upsert that calls upsert_item again after it raised
Upsert_Retry(i, c) ==
    /\ fut[i] = "running"
    /\ up[i][c] \in {"running", "fail"}
    /\ calls[i][c] < 2
    /\ calls' = [calls EXCEPT ![i][c] = @ + 1]
    /\ \E stored \in StoreOutcomes \cup {TRUE} :
         IF stored
         THEN /\ container' = [container EXCEPT ![c][documents[i].chunk_id] = i]
              /\ up' = [up EXCEPT ![i][c] = "ok"]
         ELSE /\ container' = container
              /\ up' = [up EXCEPT ![i][c] = "fail"]
    /\ UNCHANGED <<documents, results, callback, pc, next_doc, fut, result,
                   consumed, loaded_count, total_ru, printed>>
    /\ UNCHANGED <<compareVars, vecVars, metricVars, fanVars, storeVars, agentVars>>

\* Upsert with one container client shared by the three container names
Upsert_SharedCollection(i, c) ==
    /\ up[i][c] = "running"
    /\ calls' = [calls EXCEPT ![i][c] = @ + 1]
    /\ \E stored \in StoreOutcomes :
         IF stored
         THEN /\ container' = [d \in Containers |->
                                  [container[d] EXCEPT ![documents[i].chunk_id] = i]]
              /\ up' = [up EXCEPT ![i][c] = "ok"]
         ELSE /\ container' = container
              /\ up' = [up EXCEPT ![i][c] = "fail"]
    /\ UNCHANGED <<documents, results, callback, pc, next_doc, fut, result,
                   consumed, loaded_count, total_ru, printed>>
    /\ UNCHANGED <<compareVars, vecVars, metricVars, fanVars, storeVars, agentVars>>

\* store_vector_document in one upload thread: upsert_item either stores the
\* document (replacing the one with the same id) or raises
Upsert(i, c) ==
    /\ up[i][c] = "running"
    /\ calls' = [calls EXCEPT ![i][c] = @ + 1]
    /\ \E stored \in StoreOutcomes :
         IF stored
         THEN /\ container' = [container EXCEPT ![c][documents[i].chunk_id] = i]
              /\ up' = [up EXCEPT ![i][c] = "ok"]
         ELSE /\ container' = container
              /\ up' = [up EXCEPT ![i][c] = "fail"]
    /\ UNCHANGED <<documents, results, callback, pc, next_doc, fut, result,
                   consumed, loaded_count, total_ru, printed>>
    /\ UNCHANGED <<compareVars, vecVars, metricVars, fanVars, storeVars, agentVars>>

\* FinishRecord that returns the entries of the uploads that succeeded and
\* drops the exception of the others
FinishRecord_ReturnsPartial(i) ==
    /\ fut[i] = "running"
    /\ \A c \in Containers : up[i][c] \in {"ok", "fail"}
    /\ fut' = [fut EXCEPT ![i] = "finished"]
    /\ result' = [result EXCEPT ![i] = "ok"]
    /\ results' = [results EXCEPT ![i] =
                      [c \in {d \in Containers : up[i][d] = "ok"} |->
                          StoreResult(documents[i], c)]]
    /\ UNCHANGED <<documents, callback, pc, next_doc, up, calls, container,
                   consumed, loaded_count, total_ru, printed>>
    /\ UNCHANGED <<compareVars, vecVars, metricVars, fanVars, storeVars, agentVars>>

\* store_to_all_containers ends once its three uploads have: it returns the
\* results map, or future.result() of a failed upload raised
FinishRecord(i) ==
    /\ fut[i] = "running"
    /\ \A c \in Containers : up[i][c] \in {"ok", "fail"}
    /\ fut' = [fut EXCEPT ![i] = "finished"]
    /\ IF \A c \in Containers : up[i][c] = "ok"
       THEN /\ result' = [result EXCEPT ![i] = "ok"]
            /\ results' = [results EXCEPT ![i] =
                              [c \in Containers |-> StoreResult(documents[i], c)]]
       ELSE /\ \E c \in Containers :
                 /\ up[i][c] = "fail"
                 /\ result' = [result EXCEPT ![i] = c]
            /\ results' = results
    /\ UNCHANGED <<documents, callback, pc, next_doc, up, calls, container,
                   consumed, loaded_count, total_ru, printed>>
    /\ UNCHANGED <<compareVars, vecVars, metricVars, fanVars, storeVars, agentVars>>

\* Accumulate with total_ru[...] = charge in place of +=
Accumulate_LostUpdate(i) ==
    /\ loaded_count' = loaded_count + 1
    /\ total_ru' = [t \in IndexTypes |-> RequestCharge(documents[i], ContainerOf(t))]

\* the try branch of the as_completed loop for a future holding a results map
Accumulate(i) ==
    /\ loaded_count' = loaded_count + 1
    /\ total_ru' = [t \in IndexTypes |->
                      FloatAdd(total_ru[t], results[i][ContainerOf(t)].ru_charge)]

\* CollectLoaded for an as_completed that yields a finished future again
CollectLoaded_Recounts(i) ==
    /\ pc = "collect"
    /\ fut[i] = "finished"
    /\ result[i] = "ok"
    /\ Accumulate(i)
    /\ consumed' = consumed \cup {i}
    /\ UNCHANGED <<documents, results, callback, pc, next_doc, fut, result, up, calls,
                   container, printed>>
    /\ UNCHANGED <<compareVars, vecVars, metricVars, fanVars, storeVars, agentVars>>

\* as_completed yields a finished future whose result() returns; the
\* progress callback, when there is one, returns
CollectLoaded(i) ==
    /\ pc = "collect"
    /\ fut[i] = "finished" /\ i \notin consumed
    /\ result[i] = "ok"
    /\ Accumulate(i)
    /\ consumed' = consumed \cup {i}
    /\ UNCHANGED <<documents, results, callback, pc, next_doc, fut, result, up, calls,
                   container, printed>>
    /\ UNCHANGED <<compareVars, vecVars, metricVars, fanVars, storeVars, agentVars>>

\* CollectCallbackRaises in which the exception ends the load
CollectCallbackRaises_Cancels(i) ==
    /\ pc = "collect"
    /\ fut[i] = "finished" /\ i \notin consumed
    /\ result[i] = "ok"
    /\ callback
    /\ Accumulate(i)
    /\ printed' = Append(printed, "callback")
    /\ consumed' = consumed \cup {i}
    /\ pc' = "returned"
    /\ UNCHANGED <<documents, results, callback, next_doc, fut, result, up, calls,
                   container>>
    /\ UNCHANGED <<compareVars, vecVars, metricVars, fanVars, storeVars, agentVars>>

\* as above, but progress_callback raises: the except branch prints it
CollectCallbackRaises(i) ==
    /\ pc = "collect"
    /\ fut[i] = "finished" /\ i \notin consumed
    /\ result[i] = "ok"
    /\ callback
    /\ Accumulate(i)
    /\ printed' = Append(printed, "callback")
    /\ consumed' = consumed \cup {i}
    /\ UNCHANGED <<documents, results, callback, pc, next_doc, fut, result, up, calls,
                   container>>
    /\ UNCHANGED <<compareVars, vecVars, metricVars, fanVars, storeVars, agentVars>>

\* CollectError with loaded_count += 1 ahead of future.result()
CollectError_Counted(i) ==
    /\ pc = "collect"
    /\ fut[i] = "finished" /\ i \notin consumed
    /\ result[i] \in Containers
    /\ loaded_count' = loaded_count + 1
    /\ printed' = Append(printed, result[i])
    /\ consumed' = consumed \cup {i}
    /\ UNCHANGED <<documents, results, callback, pc, next_doc, fut, result, up, calls,
                   container, total_ru>>
    /\ UNCHANGED <<compareVars, vecVars, metricVars, fanVars, storeVars, agentVars>>

\* CollectError with an except branch that passes
CollectError_Silent(i) ==
    /\ pc = "collect"
    /\ fut[i] = "finished" /\ i \notin consumed
    /\ result[i] \in Containers
    /\ consumed' = consumed \cup {i}
    /\ UNCHANGED <<documents, results, callback, pc, next_doc, fut, result, up, calls,
                   container, loaded_count, total_ru, printed>>
    /\ UNCHANGED <<compareVars, vecVars, metricVars, fanVars, storeVars, agentVars>>

\* future.result() raises: print(f"Error loading document: {e}")
CollectError(i) ==
    /\ pc = "collect"
    /\ fut[i] = "finished" /\ i \notin consumed
    /\ result[i] \in Containers
    /\ printed' = Append(printed, result[i])
    /\ consumed' = consumed \cup {i}
    /\ UNCHANGED <<documents, results, callback, pc, next_doc, fut, result, up, calls,
                   container, loaded_count, total_ru>>
    /\ UNCHANGED <<compareVars, vecVars, metricVars, fanVars, storeVars, agentVars>>

\* Return for an executor that is shut down with wait=False and a loop that
\* ends early
Return_NoWait ==
    /\ pc = "collect"
    /\ pc' = "returned"
    /\ UNCHANGED <<documents, results, callback, next_doc, fut, result, up, calls,
                   container, consumed, loaded_count, total_ru, printed>>
    /\ UNCHANGED <<compareVars, vecVars, metricVars, fanVars, storeVars, agentVars>>

\* the as_completed loop is exhausted and the report is returned
Return ==
    /\ pc = "collect"
    /\ consumed = DocIdx
    /\ pc' = "returned"
    /\ UNCHANGED <<documents, results, callback, next_doc, fut, result, up, calls,
                   container, consumed, loaded_count, total_ru, printed>>
    /\ UNCHANGED <<compareVars, vecVars, metricVars, fanVars, storeVars, agentVars>>

\* executor.shutdown(wait=True) on the way out of the with block after the
\* KeyError: the submitted records have run, then the error propagates
ShutdownRaise ==
    /\ pc = "shutdown"
    /\ \A i \in DocIdx : fut[i] \in {"new", "finished"}
    /\ pc' = "raised"
    /\ UNCHANGED <<documents, results, callback, next_doc, fut, result, up, calls,
                   container, consumed, loaded_count, total_ru, printed>>
    /\ UNCHANGED <<compareVars, vecVars, metricVars, fanVars, storeVars, agentVars>>

Next ==
    \/ SubmitRecord
    \/ SubmitKeyError
    \/ \E i \in DocIdx : StartRecord(i)
    \/ \E i \in DocIdx, c \in Containers : Upsert(i, c)
    \/ \E i \in DocIdx : FinishRecord(i)
    \/ \E i \in DocIdx : CollectLoaded(i)
    \/ \E i \in DocIdx : CollectCallbackRaises(i)
    \/ \E i \in DocIdx : CollectError(i)
    \/ Return
    \/ ShutdownRaise

Spec == Init /\ [][Next]_vars

\* the same with threads that are scheduled and store calls that return or
\* raise: a step that can be taken is taken in the end
SpecLive == Init /\ [][Next]_vars /\ WF_vars(Next)

\* the dictionary bulk_load_documents returns
Report == [loaded_count |-> loaded_count, total_ru |-> total_ru]

TypeOK ==
    /\ pc \in {"submit", "collect", "shutdown", "returned", "raised"}
    /\ fut \in [DocIdx -> {"new", "queued", "running", "finished"}]
    /\ loaded_count \in 0..NumDocs

\* ------------------------------------------------------------------------
\* Properties of bulk_load_documents
\* ------------------------------------------------------------------------

\* records whose three upserts were all accepted by the store
AllStored == {i \in DocIdx : \A c \in Containers : up[i][c] = "ok"}

\* records whose store_to_all_containers call raised
FailedRecords == {i \in DocIdx : \E c \in Containers : up[i][c] = "fail"}

\* records stored in one container and rejected by another
Partial(i) == \E c, d \in Containers : up[i][c] = "ok" /\ up[i][d] = "fail"

\* the ids a query of container c would find
Queryable(c) == {id \in ChunkIds : container[c][id] # 0}

\* positions of printed that hold the error of a store call
StoreErrorsPrinted == {k \in 1..Len(printed) : printed[k] \in Containers}

\* progress_callback has raised
CallbackRaised == \E k \in 1..Len(printed) : printed[k] = "callback"

\* C1: a failure on any single record (wrong dimensionality, malformed
\* record, store error) does not abort the batch: every record is submitted
\* and processed and the call returns a report instead of raising.
C1_BatchNeverAborts ==
    pc \in {"returned", "raised"} =>
        /\ pc = "returned"
        /\ \A i \in DocIdx : fut[i] = "finished"

\* C2 as stated: the succeeded count of the report equals the number of
\* records that are queryable in the strategies afterwards.
C2_LoadedCountIsQueryable ==
    pc = "returned" =>
        \A c \in Containers : loaded_count = Cardinality(Queryable(c))

\* C2 amended: when the report is returned every record was consumed once,
\* loaded_count is the number of records whose three upserts all succeeded,
\* each other record had its store error printed, and the report holds
\* loaded_count and total_ru only.
C2_LoadedCountIsAllStored ==
    pc = "returned" =>
        /\ loaded_count = Cardinality(AllStored)
        /\ Cardinality(StoreErrorsPrinted) = Cardinality(FailedRecords)
        /\ loaded_count + Cardinality(StoreErrorsPrinted) = NumDocs
        /\ DOMAIN Report = {"loaded_count", "total_ru"}

C2_Witness ==
    /\ pc = "returned"
    /\ Cardinality(FailedRecords) = 1
    /\ loaded_count = NumDocs - 1

\* C3 as stated: once the caller has signalled (the only hook that runs
\* during the load is progress_callback, the signal is it raising), no
\* record that is still queued is dispatched.
C3_NoDispatchAfterSignal ==
    [][CallbackRaised => \A i \in DocIdx : fut[i] = "queued" => fut'[i] = "queued"]_vars

\* C3 amended: nothing stops the load: when bulk_load_documents ends, every
\* record it submitted was dispatched and ran all its uploads, also after
\* progress_callback raised, and a returned report covers the whole batch
\* and has no cancelled flag.
C3_EverySubmittedRecordRuns ==
    pc \in {"returned", "raised"} =>
        /\ \A i \in DocIdx : fut[i] # "new" =>
              /\ fut[i] = "finished"
              /\ \A c \in Containers : up[i][c] \in {"ok", "fail"}
        /\ pc = "returned" =>
              /\ \A i \in DocIdx : fut[i] = "finished"
              /\ "cancelled" \notin DOMAIN Report

C3_Witness ==
    /\ pc = "returned"
    /\ CallbackRaised
    /\ \A i \in DocIdx : fut[i] = "finished"

\* C4 as stated: the fan-out of a record runs inside its worker task, so the
\* uploads running at one time are no more than the pool's workers.
C4_UploadsWithinPool == Cardinality(RunningUploads) <= PoolWorkers

\* C4 amended: the records in flight are at most the pool's fixed size, and
\* each record in flight runs its uploads in up to three threads of its own,
\* so up to three uploads per pool worker run at one time.
C4_PoolBound ==
    /\ Cardinality(InFlight) <= PoolWorkers
    /\ \A ic \in RunningUploads : ic[1] \in InFlight
    /\ Cardinality(RunningUploads) <= INNER_WORKERS * PoolWorkers

C4_Witness ==
    /\ Cardinality(InFlight) = PoolWorkers
    /\ \E i \in DocIdx : fut[i] = "queued"
    /\ Cardinality(RunningUploads) = INNER_WORKERS * PoolWorkers

\* the float sum of the charges of the records s[1], s[2], ... in that order
RECURSIVE SumInOrder(_, _)
SumInOrder(s, c) ==
    IF s = <<>> THEN 0
    ELSE FloatAdd(SumInOrder(SubSeq(s, 1, Len(s) - 1), c),
                  RequestCharge(documents[s[Len(s)]], c))

\* the orders in which the records of S can complete
Orders(S) ==
    {s \in [1..Cardinality(S) -> S] : \A j, k \in 1..Cardinality(S) : j # k => s[j] # s[k]}

\* the records of S in batch order
RECURSIVE InBatchOrder(_)
InBatchOrder(S) ==
    IF S = {} THEN <<>>
    ELSE LET m == CHOOSE i \in S : \A j \in S : j <= i
         IN  Append(InBatchOrder(S \ {m}), m)

\* C5 as stated: the cost totals are the same for every completion order,
\* hence those of the batch order.
C5_TotalsSameForEveryOrder ==
    pc = "returned" =>
        \A t \in IndexTypes :
            total_ru[t] = SumInOrder(InBatchOrder(AllStored), ContainerOf(t))

\* C5 amended: the succeeded count is the same for every completion order
\* and each total is the float sum, in some order, of the charges of exactly
\* the succeeded records, each added once.
C5_EachChargeAddedOnce ==
    pc = "returned" =>
        /\ loaded_count = Cardinality(AllStored)
        /\ \A t \in IndexTypes :
              \E s \in Orders(AllStored) : total_ru[t] = SumInOrder(s, ContainerOf(t))

C5_Witness ==
    /\ pc = "returned"
    /\ loaded_count = NumDocs
    /\ total_ru["flat"] # SumInOrder(InBatchOrder(AllStored), CONTAINER_FLAT)

\* the record ids the report names as failed
ReportedFailures == IF "failures" \in DOMAIN Report THEN Report.failures ELSE {}

\* C7 as stated: the returned report identifies a record that was stored in
\* some strategies and failed in another as failed.
C7_ReportIdentifiesPartial ==
    pc = "returned" =>
        \A i \in DocIdx : Partial(i) => documents[i].chunk_id \in ReportedFailures

\* C7 amended: such a record leaves the strategies out of step, is not
\* counted in loaded_count and has the error of one of its failed uploads
\* printed; the report itself does not name it.
C7_PartialIsPrintedNotReported ==
    pc = "returned" =>
        \A i \in DocIdx : Partial(i) =>
            /\ result[i] \in Containers /\ up[i][result[i]] = "fail"
            /\ \E k \in 1..Len(printed) : printed[k] = result[i]
            /\ loaded_count <= NumDocs - Cardinality({j \in DocIdx : Partial(j)})
            /\ (\A j \in DocIdx \ {i} : documents[j].chunk_id # documents[i].chunk_id) =>
                  \E c, d \in Containers :
                      /\ container[c][documents[i].chunk_id] = i
                      /\ container[d][documents[i].chunk_id] = 0

C7_Witness ==
    /\ pc = "returned"
    /\ \E i \in DocIdx :
          /\ Partial(i)
          /\ \A j \in DocIdx \ {i} : documents[j].chunk_id # documents[i].chunk_id

\* C8 as stated: a record is counted as a failure only after its persistence
\* call was retried.
C8_FailureOnlyAfterRetry ==
    pc = "returned" =>
        \A i \in FailedRecords : \E c \in Containers : calls[i][c] > 1

\* C8 amended: there is no retry: upsert_item is called at most once per
\* record and container, and a record with one failed call is a failure.
C8_SingleAttempt ==
    /\ \A i \in DocIdx, c \in Containers : calls[i][c] <= 1
    /\ pc = "returned" =>
          \A i \in DocIdx :
              /\ \A c \in Containers : calls[i][c] = 1
              /\ i \in FailedRecords => result[i] # "ok"

C8_Witness ==
    /\ pc = "returned"
    /\ \E i \in FailedRecords : \A c \in Containers : calls[i][c] = 1

\* C19: each strategy owns its own collection: a store_vector_document call
\* with one container name changes only that container, and there only the
\* document with the given id; the other containers keep their records.
C19_InsertChangesOneCollection ==
    [][\A i \in DocIdx, c \in Containers :
          calls'[i][c] # calls[i][c] =>
              /\ \A d \in Containers \ {c} : container'[d] = container[d]
              /\ \A id \in ChunkIds \ {documents[i].chunk_id} :
                    container'[c][id] = container[c][id]]_vars

C19_Witness ==
    \E i \in DocIdx :
        /\ calls[i][CONTAINER_FLAT] = 1
        /\ container[CONTAINER_FLAT][documents[i].chunk_id] = i
        /\ container[CONTAINER_QUANTIZED][documents[i].chunk_id] = 0
        /\ container[CONTAINER_DISKANN][documents[i].chunk_id] = 0

\* C20: when store_to_all_containers returns normally, the map it returns
\* has exactly one entry per strategy, each with the cost of that strategy's
\* own upsert of the record, every container was written once and holds a
\* document with the record's id.
C20_ReturnedMapCoversEveryStrategy ==
    \A i \in DocIdx :
        result[i] = "ok" =>
            /\ DOMAIN results[i] = Containers
            /\ \A c \in Containers :
                 /\ results[i][c].chunk_id = documents[i].chunk_id
                 /\ results[i][c].ru_charge = RequestCharge(documents[i], c)
                 /\ calls[i][c] = 1
                 /\ container[c][documents[i].chunk_id] # 0

C20_Witness ==
    \E i, j \in DocIdx :
        /\ result[i] = "ok"
        /\ results[i][CONTAINER_FLAT].ru_charge # results[i][CONTAINER_DISKANN].ru_charge
        /\ result[j] \in Containers
        /\ results[j] = <<>>

\* the records with an upload to container c in progress
Writers(c) == {i \in DocIdx : up[i][c] = "running"}

\* C25 as stated: at any time at most one insert is in progress on any one
\* collection.
C25_SingleWriter ==
    \A c \in Containers : Cardinality(Writers(c)) <= 1

\* C25 amended: a record writes each collection from one upload thread, and
\* the records in flight write the same collection at the same time: up to
\* the pool's size inserts are in progress on one collection.
C25_WritersWithinPool ==
    \A c \in Containers :
        /\ Writers(c) \subseteq InFlight
        /\ Cardinality(Writers(c)) <= PoolWorkers

C25_Witness ==
    \E c \in Containers :
        /\ Cardinality(Writers(c)) = PoolWorkers
        /\ Cardinality(Writers(c)) > 1

\* C26: within one call each submitted record is dispatched at most once
\* (its future only moves forward), is written to each strategy at most
\* once and is consumed, hence counted, at most once: the counts of the
\* report never exceed the number of submitted records.
C26_EachRecordOnce ==
    [][/\ \A i \in DocIdx :
            fut'[i] # fut[i] =>
                <<fut[i], fut'[i]>> \in {<<"new", "queued">>, <<"queued", "running">>,
                                        <<"running", "finished">>}
       /\ \A i \in DocIdx, c \in Containers : calls'[i][c] <= 1
       /\ consumed \subseteq consumed'
       /\ loaded_count' - loaded_count =
              Cardinality({i \in consumed' \ consumed : result[i] = "ok"})
       /\ loaded_count' + Cardinality(StoreErrorsPrinted') = Cardinality(consumed')
       /\ Cardinality(consumed') <= Cardinality({i \in DocIdx : fut'[i] # "new"})]_vars

C26_Witness ==
    /\ pc = "returned"
    /\ loaded_count = NumDocs
    /\ documents[NumDocs].chunk_id = documents[1].chunk_id
    /\ \A i \in DocIdx, c \in Containers : calls[i][c] = 1

\* C27: bulk_load_documents ends for every batch, and when it has returned
\* no worker is in flight, every record was consumed by the loop, either
\* counted as loaded or with its error printed, and no write follows.
C27_EndsWithNothingInFlight ==
    /\ <>(pc \in {"returned", "raised"})
    /\ [](pc = "returned" =>
            /\ InFlight = {}
            /\ RunningUploads = {}
            /\ consumed = DocIdx
            /\ loaded_count + Cardinality(StoreErrorsPrinted) = NumDocs)
    /\ [][pc = "returned" => container' = container /\ calls' = calls]_vars

C27_Witness ==
    /\ pc = "returned"
    /\ loaded_count \in 1..(NumDocs - 1)
    /\ Cardinality(StoreErrorsPrinted) = NumDocs - loaded_count

\* every upsert of the batch was accepted and the report is returned
AllInsertsSucceeded ==
    /\ pc = "returned"
    /\ \A i \in DocIdx, c \in Containers : up[i][c] = "ok"

\* C30: after a bulk load in which every insert succeeds the three
\* collections hold identical records, the same version of every id, also
\* when the batch has two records with one id.
C30_CollectionsIdentical ==
    AllInsertsSucceeded =>
        \A c, d \in Containers : container[c] = container[d]

\* ------------------------------------------------------------------------
\* Vectors and the cosine metric
\* ------------------------------------------------------------------------

\* numbers with a fraction are held in units of 1/FixedScale
FixedScale == 100

\* the n-dimensional vector with a 1 in position k
Unit(k, n) == [i \in 1..n |-> IF i = k THEN 1 ELSE 0]

\* the n-dimensional vector of x's
Const(x, n) == [i \in 1..n |-> x]

RECURSIVE Dot(_, _)
\* np.dot of two vectors of one length
Dot(v1, v2) ==
    IF v1 = <<>> THEN 0
    ELSE v1[1] * v2[1] + Dot(Tail(v1), Tail(v2))

RECURSIVE SqrtIn(_, _, _)
\* the largest r in lo..hi with r * r <= n
SqrtIn(n, lo, hi) ==
    IF lo = hi THEN lo
    ELSE LET mid == (lo + hi + 1) \div 2
         IN  IF mid * mid <= n THEN SqrtIn(n, mid, hi) ELSE SqrtIn(n, lo, mid - 1)

\* np.linalg.norm, in units of 1/FixedScale
Norm(v) == SqrtIn(Dot(v, v) * FixedScale * FixedScale, 0, (Dot(v, v) + 1) * FixedScale)

\* dot / (magnitude1 * magnitude2) for non-zero magnitudes, in units of
\* 1/FixedScale
Cosine(v1, v2) == (Dot(v1, v2) * FixedScale * FixedScale * FixedScale) \div (Norm(v1) * Norm(v2))

\* calculate_similarity that scores a zero-magnitude vector as identical
calculate_similarity_ZeroIsOne(vector1, vector2) ==
    IF Len(vector1) # Len(vector2) THEN 0
    ELSE IF Norm(vector1) = 0 \/ Norm(vector2) = 0 THEN FixedScale
    ELSE Cosine(vector1, vector2)

\* calculate_similarity that divides by magnitude1 twice
calculate_similarity_Projection(vector1, vector2) ==
    IF Len(vector1) # Len(vector2) THEN 0
    ELSE IF Norm(vector1) = 0 \/ Norm(vector2) = 0 THEN 0
    ELSE (Dot(vector1, vector2) * FixedScale * FixedScale * FixedScale)
            \div (Norm(vector1) * Norm(vector1))

\* calculate_similarity of main.py: np.dot raises ValueError for vectors of
\* different lengths and the except branch returns 0.0
calculate_similarity(vector1, vector2) ==
    IF Len(vector1) # Len(vector2) THEN 0
    ELSE IF Norm(vector1) = 0 \/ Norm(vector2) = 0 THEN 0
    ELSE Cosine(vector1, vector2)

\* the longest vector handed to calculate_similarity on its own
MetricDim == 2

\* the vectors handed to calculate_similarity on its own: every vector of 1
\* to MetricDim components between -1 and 2
MetricVectors ==
    UNION {[1..n -> -1..2] : n \in 1..MetricDim}

\* a call of calculate_similarity with the operands in the order given
\* (which = 1) or swapped (which = 2)
Measure(which) ==
    /\ operands # <<>>
    /\ which \notin DOMAIN similarity
    /\ similarity' = similarity @@
           (which :> calculate_similarity(operands[which], operands[3 - which]))
    /\ UNCHANGED <<operands, bulkVars, compareVars, vecVars, fanVars, storeVars, agentVars>>

InitMetric ==
    /\ OthersIdle
    /\ BulkIdle
    /\ CompareIdle
    /\ VecIdle
    /\ operands \in MetricVectors \X MetricVectors
    /\ similarity = <<>>

NextMetric ==
    \/ \E which \in 1..2 : Measure(which)

SpecMetric == InitMetric /\ [][NextMetric]_vars

\* C17: the metric is symmetric: for every pair of vectors of equal length
\* calculate_similarity(a, b) and calculate_similarity(b, a) return the
\* same value.
C17_MetricSymmetric ==
    (DOMAIN similarity = 1..2 /\ Len(operands[1]) = Len(operands[2]))
        => similarity[1] = similarity[2]

C17_Witness ==
    /\ DOMAIN similarity = 1..2
    /\ Len(operands[1]) = MetricDim
    /\ Len(operands[2]) = MetricDim
    /\ Norm(operands[1]) # Norm(operands[2])
    /\ similarity[1] \notin {-FixedScale, 0, FixedScale}

\* ------------------------------------------------------------------------
\* compare_index_performance and compare_filtered_performance
\* ------------------------------------------------------------------------

\* "dimensions": 256 of the vector embedding policy, scaled down
CosmosDim == 2

\* the largest top_n of the model
MaxTopN == 2

\* the documents the containers may hold
SampleItems ==
    { [id |-> "chunk1", category |-> "A", embedding |-> Unit(1, CosmosDim)],
      [id |-> "chunk2", category |-> "A", embedding |-> Unit(2, CosmosDim)],
      [id |-> "chunk3", category |-> "B", embedding |-> Const(1, CosmosDim)] }

\* the query embeddings of the model
QueryEmbeddings == {Unit(1, CosmosDim), Const(1, CosmosDim)}

\* the category arguments of the model; "" stands for no category
CategoryArgs == {"", "A", "B", "C"}

\* x-ms-request-charge of a query of container c, as last_response_headers
\* reports it
QueryCharge(c) == 1 + Cardinality(items[c])

\* the order in which both compare functions visit the containers
IndexTypeList == <<"flat", "quantizedFlat", "diskANN">>

\* VectorDistance(c.embedding, @queryVector) with the cosine distance
\* function: 0 = identical, 2 = opposite, in units of 1/FixedScale
VectorDistance(embedding, query_embedding) ==
    FixedScale - Cosine(embedding, query_embedding)

\* Matching for a query built without its WHERE clause
Matching_Unfiltered(c, category) == items[c]

\* FROM c WHERE c.metadata.category = @category, the clause being left out
\* when category is empty
Matching(c, category) ==
    {it \in items[c] : category = "" \/ it.category = category}

Min(a, b) == IF a < b THEN a ELSE b

\* SELECT TOP @topN ... ORDER BY VectorDistance(...): the lists the store may
\* return, documents of equal distance in either order
RankedLists(M, query_embedding, top_n) ==
    LET n == Min(top_n, Cardinality(M))
        dist(it) == VectorDistance(it.embedding, query_embedding)
    IN  {s \in [1..n -> M] :
            /\ \A j, k \in 1..n : j < k => s[j] # s[k] /\ dist(s[j]) <= dist(s[k])
            /\ \A it \in M : (\A j \in 1..n : s[j] # it) =>
                  \A j \in 1..n : dist(s[j]) <= dist(it)}

\* the results list built from the items of a query
ResultsOf(s, query_embedding) ==
    [j \in 1..Len(s) |->
        [chunk_id |-> s[j].id,
         metadata |-> [category |-> s[j].category],
         similarity_score |-> VectorDistance(s[j].embedding, query_embedding)]]

\* the entry of a container whose search returned
SuccessEntry(c, res, ru) ==
    [container |-> c, results |-> res, ru_charge |-> ru,
     result_count |-> Len(res), status |-> "success"]

\* the entry of a container whose search raised
ErrorEntry(c) ==
    [container |-> c, results |-> <<>>, ru_charge |-> 0, execution_time_ms |-> 0,
     result_count |-> 0, status |-> "error", error |-> "query failed"]

\* the for loop without its try: the first exception ends the comparison
CompareLoop_Aborts(failing, res, ru) ==
    LET reached == {k \in 1..Len(IndexTypeList) :
                       \A j \in 1..k : ContainerOf(IndexTypeList[j]) \notin failing}
    IN  [t \in {IndexTypeList[k] : k \in reached} |->
            SuccessEntry(ContainerOf(t), res[ContainerOf(t)], ru[ContainerOf(t)])]

\* the for loop of both compare functions: failing are the containers whose
\* search raises, res what the other searches return and ru their charges
CompareLoop(failing, res, ru) ==
    [t \in {IndexTypeList[k] : k \in 1..Len(IndexTypeList)} |->
        IF ContainerOf(t) \in failing
        THEN ErrorEntry(ContainerOf(t))
        ELSE SuccessEntry(ContainerOf(t), res[ContainerOf(t)], ru[ContainerOf(t)])]

\* the call of a compare function with the given category (each behaviour
\* follows one call: the functions keep no state between calls)
Compare(op, category) ==
    /\ request = <<>>
    /\ \E q \in QueryEmbeddings, top_n \in 1..MaxTopN, failing \in SUBSET Containers :
        \E r1 \in RankedLists(Matching(CONTAINER_FLAT, category), q, top_n),
           r2 \in RankedLists(Matching(CONTAINER_QUANTIZED, category), q, top_n),
           r3 \in RankedLists(Matching(CONTAINER_DISKANN, category), q, top_n) :
          LET res == [c \in Containers |->
                         CASE c = CONTAINER_FLAT -> ResultsOf(r1, q)
                           [] c = CONTAINER_QUANTIZED -> ResultsOf(r2, q)
                           [] c = CONTAINER_DISKANN -> ResultsOf(r3, q)]
              ru == [c \in Containers |-> QueryCharge(c)]
          IN  /\ comparison' = CompareLoop(failing, res, ru)
              /\ request' = [op |-> op, query_embedding |-> q, category |-> category,
                             top_n |-> top_n, failing |-> failing]
              /\ UNCHANGED <<items, bulkVars, vecVars, metricVars, fanVars, storeVars, agentVars>>

compare_index_performance == Compare("index", "")

compare_filtered_performance == \E category \in CategoryArgs : Compare("filtered", category)

InitCompare ==
    /\ OthersIdle
    /\ BulkIdle
    /\ VecIdle
    /\ MetricIdle
    /\ items \in [Containers -> SUBSET SampleItems]
    /\ comparison = <<>>
    /\ request = <<>>

NextCompare ==
    \/ compare_index_performance
    \/ compare_filtered_performance

SpecCompare == InitCompare /\ [][NextCompare]_vars

\* C6: a compare call returns exactly one entry per strategy; the entry of a
\* strategy whose query failed carries the error with status error and empty
\* results, and every other strategy was still queried and reports its own
\* results.
C6_OneEntryPerStrategy ==
    comparison # <<>> =>
        /\ DOMAIN comparison = IndexTypes
        /\ \A t \in IndexTypes :
             LET c == ContainerOf(t)
                 e == comparison[t]
             IN  /\ e.container = c
                 /\ IF c \in request.failing
                    THEN /\ e.status = "error"
                         /\ "error" \in DOMAIN e
                         /\ e.results = <<>>
                         /\ e.result_count = 0
                    ELSE /\ e.status = "success"
                         /\ e.result_count = Len(e.results)
                         /\ \E s \in RankedLists(Matching(c, request.category),
                                                 request.query_embedding, request.top_n) :
                                e.results = ResultsOf(s, request.query_embedding)

C6_Witness ==
    /\ comparison # <<>>
    /\ request.failing = {CONTAINER_FLAT}
    /\ comparison["flat"].status = "error"
    /\ comparison["diskANN"].result_count > 0

\* C15: a filtered query with a category returns only records of that
\* category, and the filter is applied before the ranking: each strategy
\* returns the top_n nearest of the matching records (as many as there are,
\* up to top_n), not the matching ones among the top_n of all records.
C15_FilterBeforeRanking ==
    (comparison # <<>> /\ request.op = "filtered" /\ request.category # "") =>
        \A t \in IndexTypes :
            LET c == ContainerOf(t)
                e == comparison[t]
                matching == {it \in items[c] : it.category = request.category}
                returned == {e.results[j].chunk_id : j \in 1..Len(e.results)}
                dist(it) == VectorDistance(it.embedding, request.query_embedding)
            IN  c \notin request.failing =>
                    /\ \A j \in 1..Len(e.results) :
                          e.results[j].metadata.category = request.category
                    /\ e.result_count = Min(request.top_n, Cardinality(matching))
                    /\ Cardinality(returned) = e.result_count
                    /\ returned \subseteq {it.id : it \in matching}
                    /\ \A it \in matching, r \in matching :
                          (it.id \notin returned /\ r.id \in returned) => dist(r) <= dist(it)

C15_Witness ==
    /\ comparison # <<>>
    /\ request.op = "filtered"
    /\ request.category = "A"
    /\ request.top_n = 1
    /\ request.query_embedding = Const(1, CosmosDim)
    /\ request.failing = {}
    /\ \E it \in items[CONTAINER_FLAT] : it.category = "B" /\ it.embedding = Const(1, CosmosDim)
    /\ comparison["flat"].result_count = 1
    /\ comparison["flat"].results[1].metadata.category = "A"

\* ------------------------------------------------------------------------
\* The Redis vector apps: main.py and VectorManager
\* ------------------------------------------------------------------------

\* self.VECTOR_DIM, and "DIM": 8 of the HNSW index idx:products
VECTOR_DIM == 8

\* significant bits of a float32
FLOAT32_BITS == 24

\* the largest top_k of the model
MaxTopK == 2

\* "default 3, max 10" of the prompt of input_search_vectors
DEFAULT_TOP_K == 3

MAX_TOP_K == 10

Keys == {"vector:p1", "vector:p2"}

\* the vectors a user may enter: four of the index dimension, one shorter
VectorInputs ==
    {Unit(1, VECTOR_DIM), Const(1, VECTOR_DIM), Const(0, VECTOR_DIM),
     Const(-1, VECTOR_DIM), Const(1, VECTOR_DIM - 1)}

\* the metadata a user may enter: none, or the fields of a product
MetadataInputs == {<<>>, [name |-> "n1", category |-> "A", product_id |-> "1"]}

\* json.dumps(vector) and json.loads of it
JsonDumps(vector) == <<"json", vector>>

JsonLoads(text) == text[2]

\* np.array(vector, dtype=np.float32).tobytes(): one float32 per component
Float32Bytes(vector) == [i \in 1..Len(vector) |-> RoundBits(vector[i], FLOAT32_BITS)]

\* r.hset(key, mapping=data): the fields of data are set in the hash at key,
\* the other fields of the hash stay
Hset(store, key, data) ==
    LET old == IF key \in DOMAIN store THEN store[key] ELSE <<>>
    IN  [k \in DOMAIN store \cup {key} |-> IF k = key THEN data @@ old ELSE store[k]]

\* the value hset returns: the number of fields it added
HsetAdded(store, key, data) ==
    Cardinality(DOMAIN data \ (IF key \in DOMAIN store THEN DOMAIN store[key] ELSE {}))

\* store_vector_data(r, vector_key, vector, metadata) of main.py
store_vector_data ==
    \E key \in Keys, vector \in VectorInputs, metadata \in MetadataInputs, connected \in BOOLEAN :
      LET data == [vector |-> JsonDumps(vector)] @@ metadata
      IN  /\ IF connected
             THEN /\ vstore' = Hset(vstore, key, data)
                  /\ shown' = [kind |-> IF HsetAdded(vstore, key, data) > 0
                                         THEN "stored" ELSE "updated"]
             ELSE /\ vstore' = vstore
                  /\ shown' = [kind |-> "error"]
          /\ UNCHANGED <<products, reply, called, index, bulkVars, compareVars, metricVars, fanVars, storeVars, agentVars>>

\* the orders in which r.keys("vector:*") may list the keys
KeyOrders ==
    LET n == Cardinality(DOMAIN vstore)
    IN  {s \in [1..n -> DOMAIN vstore] : \A j, k \in 1..n : j # k => s[j] # s[k]}

RECURSIVE Similarities(_, _)
\* the list of (key, similarity) built by the for loop over the keys
Similarities(keys, query_vector) ==
    IF keys = <<>> THEN <<>>
    ELSE LET rest == Similarities(SubSeq(keys, 1, Len(keys) - 1), query_vector)
             key == keys[Len(keys)]
         IN  IF "vector" \in DOMAIN vstore[key]
             THEN Append(rest, [key |-> key,
                                similarity |-> calculate_similarity(
                                    query_vector, JsonLoads(vstore[key].vector))])
             ELSE rest

\* InsertDescending for a sort without reverse=True
InsertDescending_Ascending(sorted, x) ==
    LET ahead == {j \in 1..Len(sorted) : sorted[j].similarity <= x.similarity}
        n == Cardinality(ahead)
    IN  SubSeq(sorted, 1, n) \o <<x>> \o SubSeq(sorted, n + 1, Len(sorted))

\* x placed behind the entries of the sorted list that do not rank below it
InsertDescending(sorted, x) ==
    LET ahead == {j \in 1..Len(sorted) : sorted[j].similarity >= x.similarity}
        n == Cardinality(ahead)
    IN  SubSeq(sorted, 1, n) \o <<x>> \o SubSeq(sorted, n + 1, Len(sorted))

\* SortDescending without the sort call: the list stays in key order
SortDescending_Unsorted(list) == list

RECURSIVE SortDescending(_)
\* similarities.sort(key=lambda x: x[1], reverse=True), a stable sort
SortDescending(list) ==
    IF list = <<>> THEN <<>>
    ELSE InsertDescending(SortDescending(SubSeq(list, 1, Len(list) - 1)), list[Len(list)])

\* Slice that stops one entry early, list[:n - 1]
Slice_OneShort(list, n) ==
    IF n - 1 >= 0 THEN SubSeq(list, 1, Min(n - 1, Len(list)))
    ELSE SubSeq(list, 1, IF Len(list) + n - 1 > 0 THEN Len(list) + n - 1 ELSE 0)

\* list[:n] of Python: the first n entries, all but the last -n for n < 0
Slice(list, n) ==
    IF n >= 0 THEN SubSeq(list, 1, Min(n, Len(list)))
    ELSE SubSeq(list, 1, IF Len(list) + n > 0 THEN Len(list) + n ELSE 0)

\* search_similar_vectors(r, query_vector, top_k) of main.py; typed is what
\* the user entered at the prompt for the number of results
search_similar_vectors(query_vector, top_k, typed) ==
    \E connected \in BOOLEAN :
      LET head == [typed |-> typed, query_vector |-> query_vector, top_k |-> top_k]
      IN  /\ IF ~connected
             THEN shown' = [kind |-> "error"] @@ head
             ELSE IF DOMAIN vstore = {}
             THEN shown' = [kind |-> "no vectors"] @@ head
             ELSE \E keys \in KeyOrders :
                    LET similarities == SortDescending(Similarities(keys, query_vector))
                        top_results == Slice(similarities, top_k)
                    IN  shown' = IF top_results # <<>>
                                 THEN [kind |-> "results", keys |-> keys,
                                       top_results |-> top_results] @@ head
                                 ELSE [kind |-> "no similar"] @@ head
          /\ UNCHANGED <<vstore, products, reply, called, index, bulkVars, compareVars, metricVars, fanVars, storeVars, agentVars>>

\* what the user may enter for the number of results: nothing, something
\* that int() rejects, or an integer
TopKEntries ==
    {[text |-> "empty"], [text |-> "letters"]}
      \cup {[text |-> "digits", value |-> n] : n \in (-1..MaxTopK) \cup {DEFAULT_TOP_K, MAX_TOP_K, MAX_TOP_K + 1}}

\* the top_k of a prompt that keeps whatever integer was entered
CheckedTopK_Unchecked(top_k) == top_k

\* if top_k < 1 or top_k > 10: top_k = 3
CheckedTopK(top_k) ==
    IF top_k < 1 \/ top_k > MAX_TOP_K THEN DEFAULT_TOP_K ELSE top_k

\* input_search_vectors(r) of main.py: the query vector parses; the count is
\* read, defaulted and checked, and the search runs
input_search_vectors ==
    \E query_vector \in VectorInputs, typed \in TopKEntries :
      IF typed.text = "letters"
      THEN /\ shown' = [kind |-> "value error", typed |-> typed]
           /\ UNCHANGED <<vstore, products, reply, called, index, bulkVars, compareVars, metricVars, fanVars, storeVars, agentVars>>
      ELSE LET top_k == IF typed.text = "empty" THEN DEFAULT_TOP_K ELSE typed.value
           IN  search_similar_vectors(query_vector, CheckedTopK(top_k), typed)

\* VectorManager.store_product(vector_key, vector, metadata)
store_product ==
    \E key \in Keys, vector \in VectorInputs, metadata \in MetadataInputs, connected \in BOOLEAN :
      LET data == [embedding |-> Float32Bytes(vector)] @@ metadata
      IN  /\ index # <<>>
          /\ IF connected
             THEN /\ products' = Hset(products, key, data)
                  /\ reply' = <<TRUE, IF HsetAdded(products, key, data) > 0
                                      THEN "stored" ELSE "updated">>
             ELSE /\ products' = products
                  /\ reply' = <<FALSE, "Error storing product">>
          /\ called' = [method |-> "store_product"]
          /\ UNCHANGED <<vstore, shown, index, bulkVars, compareVars, metricVars, fanVars, storeVars, agentVars>>

\* the hashes that idx:products holds: the index takes a hash only when its
\* embedding is a blob of DIM float32 values
Indexed == {key \in DOMAIN products : Len(products[key].embedding) = VECTOR_DIM}

\* the score of a KNN query with DISTANCE_METRIC COSINE, in units of
\* 1/FixedScale; undefined is what the index reports where the cosine is
\* not defined
KnnScore(embedding, query_bytes, undefined) ==
    IF Norm(embedding) = 0 \/ Norm(query_bytes) = 0 THEN undefined
    ELSE FixedScale - Cosine(embedding, query_bytes)

\* the documents a KNN top_k query sorted by score may return: the nearest
\* of the index, nearest first, documents of equal score in either order
KnnDocs(query_bytes, top_k, undefined) ==
    LET n == Min(top_k, Cardinality(Indexed))
        score(key) == KnnScore(products[key].embedding, query_bytes, undefined)
    IN  {docs \in [1..n -> Indexed] :
            /\ \A j, k \in 1..n : j < k => docs[j] # docs[k] /\ score(docs[j]) <= score(docs[k])
            /\ \A key \in Indexed : (\A j \in 1..n : docs[j] # key) =>
                  \A j \in 1..n : score(docs[j]) <= score(key)}

\* the list search_similar_products builds from results.docs
FormatDocs(docs, query_bytes, undefined) ==
    [j \in 1..Len(docs) |->
        [key |-> docs[j],
         similarity |-> KnnScore(products[docs[j]].embedding, query_bytes, undefined),
         product_id |-> products[docs[j]].product_id,
         name |-> products[docs[j]].name,
         category |-> products[docs[j]].category]]

\* VectorManager.search_similar_products(query_vector, top_k): the query
\* raises when the connection fails or the query blob is not of the index
\* dimension, and doc.product_id raises for a hash stored without metadata
search_similar_products ==
    \E query_vector \in VectorInputs, top_k \in 1..MaxTopK, connected \in BOOLEAN,
       undefined \in {0, FixedScale} :
      LET query_bytes == Float32Bytes(query_vector)
          query_raised == ~connected \/ Len(query_bytes) # VECTOR_DIM
      IN  /\ index # <<>>
          /\ called' = [method |-> "search_similar_products", query_vector |-> query_vector,
                        top_k |-> top_k, query_raised |-> query_raised]
          /\ IF query_raised
             THEN reply' = <<FALSE, "Error searching products">>
             ELSE IF Indexed = {}
             THEN reply' = <<FALSE, "No products found in Redis">>
             ELSE \E docs \in KnnDocs(query_bytes, top_k, undefined) :
                    reply' = IF \E j \in 1..Len(docs) : "product_id" \notin DOMAIN products[docs[j]]
                             THEN <<FALSE, "Error searching products">>
                             ELSE <<TRUE, FormatDocs(docs, query_bytes, undefined)>>
          /\ UNCHANGED <<products, vstore, shown, index, bulkVars, compareVars, metricVars, fanVars, storeVars, agentVars>>

\* decode_responses of the connection that _connect_to_redis opens
DECODE_RESPONSES == FALSE

\* the schema and the definition that _create_vector_index hands to
\* create_index
IDX_PRODUCTS ==
    [prefix |-> "vector:", fields |-> {"name", "category", "product_id", "embedding"},
     algorithm |-> "HNSW", type |-> "FLOAT32", dim |-> VECTOR_DIM, metric |-> "COSINE"]

\* FT.CREATE: the index after the command and the error of its reply
FtCreate(idx, definition) ==
    IF idx # <<>> THEN [index |-> idx, error |-> "Index already exists"]
    ELSE [index |-> definition, error |-> ""]

\* create_vector_index in which the error of an existing index is raised
create_vector_index_Raises ==
    \E connected \in BOOLEAN :
      LET created == FtCreate(index, IDX_PRODUCTS)
      IN  /\ index' = IF connected THEN created.index ELSE index
          /\ called' = [method |-> "__init__", existed |-> index # <<>>, connected |-> connected,
                        raised |-> ~connected \/ created.error # ""]
          /\ reply' = <<>>
          /\ UNCHANGED <<products, vstore, shown, bulkVars, compareVars, metricVars, fanVars,
                         storeVars, agentVars>>

\* VectorManager(): _connect_to_redis raises when the connection fails, and
\* _create_vector_index passes over the error of an index that exists
create_vector_index ==
    \E connected \in BOOLEAN :
      LET created == FtCreate(index, IDX_PRODUCTS)
      IN  /\ index' = IF connected THEN created.index ELSE index
          /\ called' = [method |-> "__init__", existed |-> index # <<>>, connected |-> connected,
                        raised |-> \/ ~connected
                                   \/ created.error \notin {"", "Index already exists"}]
          /\ reply' = <<>>
          /\ UNCHANGED <<products, vstore, shown, bulkVars, compareVars, metricVars, fanVars,
                         storeVars, agentVars>>

\* r.hgetall(key): the fields of the hash, their names bytes unless the
\* connection decodes responses
Hgetall(store, key, decode) ==
    IF key \notin DOMAIN store THEN <<>>
    ELSE [name \in {<<IF decode THEN "str" ELSE "bytes", f>> : f \in DOMAIN store[key]} |->
             store[key][name[2]]]

\* dict.get(name, default)
DictGet(dict, name, default) == IF name \in DOMAIN dict THEN dict[name] ELSE default

\* np.frombuffer(embedding_bytes, dtype=np.float32).tolist(): every float32
\* is widened to a float of the same value
FromBuffer(embedding_bytes) == [i \in 1..Len(embedding_bytes) |-> embedding_bytes[i]]

\* VectorManager.retrieve_product(vector_key): the fields are looked up by
\* str names
retrieve_product ==
    \E key \in Keys, connected \in BOOLEAN :
      LET retrieved_data == Hgetall(products, key, DECODE_RESPONSES)
          embedding_bytes == DictGet(retrieved_data, <<"str", "embedding">>, <<>>)
          field(f) == DictGet(retrieved_data, <<"str", f>>, "")
      IN  /\ index # <<>>
          /\ called' = [method |-> "retrieve_product", key |-> key]
          /\ reply' = IF ~connected THEN <<FALSE, "Error retrieving product">>
                      ELSE IF retrieved_data = <<>> THEN <<FALSE, "does not exist">>
                      ELSE <<TRUE, [key |-> key,
                                    vector |-> IF embedding_bytes # <<>>
                                               THEN FromBuffer(embedding_bytes) ELSE <<>>,
                                    product_id |-> field("product_id"),
                                    name |-> field("name"),
                                    category |-> field("category")]>>
          /\ UNCHANGED <<products, vstore, shown, index, bulkVars, compareVars, metricVars,
                         fanVars, storeVars, agentVars>>

\* r.delete(*keys): the store without the hashes at keys
Del(store, keys) ==
    IF DOMAIN store \subseteq keys THEN <<>>
    ELSE [k \in DOMAIN store \ keys |-> store[k]]

\* delete_product that reports a deletion and leaves the hash
delete_product_KeepsHash ==
    \E key \in Keys, connected \in BOOLEAN :
      /\ index # <<>>
      /\ called' = [method |-> "delete_product", key |-> key]
      /\ reply' = IF ~connected THEN <<FALSE, "Error deleting product">>
                  ELSE IF key \in DOMAIN products THEN <<TRUE, "deleted">>
                  ELSE <<FALSE, "does not exist">>
      /\ UNCHANGED <<products, vstore, shown, index, bulkVars, compareVars, metricVars,
                     fanVars, storeVars, agentVars>>

\* VectorManager.delete_product(vector_key)
delete_product ==
    \E key \in Keys, connected \in BOOLEAN :
      /\ index # <<>>
      /\ called' = [method |-> "delete_product", key |-> key]
      /\ products' = IF connected THEN Del(products, {key}) ELSE products
      /\ reply' = IF ~connected THEN <<FALSE, "Error deleting product">>
                  ELSE IF key \in DOMAIN products THEN <<TRUE, "deleted">>
                  ELSE <<FALSE, "does not exist">>
      /\ UNCHANGED <<vstore, shown, index, bulkVars, compareVars, metricVars, fanVars,
                     storeVars, agentVars>>

\* VectorManager.clear_all_products(): every key that matches vector:*
clear_all_products ==
    \E connected \in BOOLEAN :
      LET product_keys == {key \in DOMAIN products : key \in Keys}
      IN  /\ index # <<>>
          /\ called' = [method |-> "clear_all_products"]
          /\ products' = IF connected THEN Del(products, product_keys) ELSE products
          /\ reply' = IF ~connected THEN <<FALSE, "Error clearing products">>
                      ELSE IF product_keys # {} THEN <<TRUE, "All products deleted">>
                      ELSE <<FALSE, "No products to delete">>
          /\ UNCHANGED <<vstore, shown, index, bulkVars, compareVars, metricVars, fanVars,
                         storeVars, agentVars>>

InitVec ==
    /\ OthersIdle
    /\ BulkIdle
    /\ CompareIdle
    /\ VecIdle
    /\ MetricIdle

NextVec ==
    \/ store_vector_data
    \/ input_search_vectors

SpecVec == InitVec /\ [][NextVec]_vars

NextProducts ==
    \/ create_vector_index
    \/ store_product
    \/ retrieve_product
    \/ search_similar_products
    \/ delete_product
    \/ clear_all_products

SpecProducts == InitVec /\ [][NextProducts]_vars

\* C9: after any sequence of inserts every stored record has a vector of the
\* collection's dimensionality: an insert of another length fails and stores
\* nothing.
C9_StoredVectorsHaveIndexDim ==
    \A key \in DOMAIN products : Len(products[key].embedding) = VECTOR_DIM

\* C10: a similarity query whose vector length differs from that of the
\* stored vectors fails; it never displays a ranked result list.
C10_MismatchedQueryFails ==
    [][(shown' # shown /\ shown'.kind = "results") =>
          \A key \in DOMAIN vstore :
              Len(JsonLoads(vstore[key].vector)) = Len(shown'.query_vector)]_vars

\* the last thing main.py did was a search that reached search_similar_vectors
SearchRan == "top_k" \in DOMAIN shown

\* C11 as stated: a similarity query with k <= 0 fails for that call: it is
\* not replaced by another k and the search does not run.
C11_InvalidKFails ==
    ("typed" \in DOMAIN shown /\ shown.typed.text = "digits" /\ shown.typed.value <= 0)
        => ~SearchRan

\* C11 amended: the Redis console does not reject a count below 1 or above
\* 10: it replaces it by the default 3 and runs the search, so that
\* search_similar_vectors only runs with 1 <= top_k <= 10 and displays at most
\* top_k results; a count within 1..10 is used as entered.
C11_InvalidKRunsDefault ==
    /\ ("typed" \in DOMAIN shown /\ shown.typed.text # "letters") => SearchRan
    /\ SearchRan =>
          /\ shown.top_k \in 1..MAX_TOP_K
          /\ shown.typed.text = "empty" => shown.top_k = DEFAULT_TOP_K
          /\ shown.typed.text = "digits" =>
                shown.top_k = IF shown.typed.value \in 1..MAX_TOP_K
                              THEN shown.typed.value ELSE DEFAULT_TOP_K
          /\ shown.kind = "results" => Len(shown.top_results) \in 1..shown.top_k

C11_Witness ==
    /\ SearchRan
    /\ shown.typed.text = "digits"
    /\ shown.typed.value = 0
    /\ shown.top_k = DEFAULT_TOP_K
    /\ shown.kind = "results"
    /\ Len(shown.top_results) = 2

\* the position of a key in ascending key order
KeyRank(key) == CASE key = "vector:p1" -> 1 [] key = "vector:p2" -> 2

\* the similarity scores of a result list, in order
Scores(list) == [j \in 1..Len(list) |-> list[j].similarity]

\* the position of a key in the order in which r.keys listed the keys
ListedAt(keys, key) == CHOOSE j \in 1..Len(keys) : keys[j] = key

\* C12 as stated, with most similar first read for "ascending by distance":
\* every displayed result list is sorted from most to least similar and any
\* two results of equal score appear in ascending key order.
C12_TiesInKeyOrder ==
    shown.kind = "results" =>
        \A j, k \in 1..Len(shown.top_results) :
            j < k =>
                /\ shown.top_results[j].similarity >= shown.top_results[k].similarity
                /\ shown.top_results[j].similarity = shown.top_results[k].similarity
                      => KeyRank(shown.top_results[j].key) < KeyRank(shown.top_results[k].key)

\* C12 amended: every displayed result list is sorted from most to least
\* similar (descending cosine similarity), and any two results of equal
\* score appear in the order in which the store listed their keys.
C12_TiesInListedOrder ==
    shown.kind = "results" =>
        \A j, k \in 1..Len(shown.top_results) :
            j < k =>
                /\ shown.top_results[j].similarity >= shown.top_results[k].similarity
                /\ shown.top_results[j].similarity = shown.top_results[k].similarity
                      => ListedAt(shown.keys, shown.top_results[j].key)
                           < ListedAt(shown.keys, shown.top_results[k].key)

C12_Witness ==
    /\ shown.kind = "results"
    /\ Len(shown.top_results) = 2
    /\ shown.top_results[1].similarity = shown.top_results[2].similarity
    /\ shown.top_results[1].key = "vector:p2"

\* two searches in a row (the collection is not modified in between) with
\* the same query vector and the same top_k, both displaying results
SameQueryAgain ==
    /\ shown.kind = "results"
    /\ shown'.kind = "results"
    /\ shown'.query_vector = shown.query_vector
    /\ shown'.top_k = shown.top_k
    /\ vstore' = vstore

\* C13 as stated: two queries with identical inputs against an unmodified
\* collection display identical ordered result lists, whatever the order in
\* which the store lists its keys.
C13_SameQuerySameList ==
    [][SameQueryAgain => shown'.top_results = shown.top_results]_vars

\* C13 amended: two such queries display the same sequence of scores; the
\* lists are identical when the store lists its keys in the same order both
\* times, and may differ in which of several equal-score records appear.
C13_SameQuerySameScores ==
    [][SameQueryAgain =>
          /\ Scores(shown'.top_results) = Scores(shown.top_results)
          /\ shown'.keys = shown.keys => shown'.top_results = shown.top_results]_vars

C13_Witness ==
    /\ shown.kind = "results"
    /\ shown.top_k = 1
    /\ shown.keys = <<"vector:p2", "vector:p1">>
    /\ shown.top_results[1].key = "vector:p2"
    /\ JsonLoads(vstore["vector:p1"].vector) = JsonLoads(vstore["vector:p2"].vector)

\* the vector stored under a key
StoredVector(key) == JsonLoads(vstore[key].vector)

\* the score the search computes for the record at key
ScoreOf(query_vector, key) == calculate_similarity(query_vector, StoredVector(key))

\* the keys of a result list
KeysOf(list) == {list[j].key : j \in 1..Len(list)}

\* a search of a collection of at least top_k records has displayed results
SearchedEnough ==
    /\ shown.kind = "results"
    /\ Cardinality(DOMAIN vstore) >= shown.top_k

\* C14 as stated: for a collection of at least k records the exact search
\* returns exactly k results whose key set is that of the reference: the
\* score of every record, a full sort, truncated to k.
C14_KeysOfReference ==
    LET q == shown.query_vector
        \* the order of the reference: most similar first, equal scores in
        \* ascending key order
        before(o, r) ==
            \/ ScoreOf(q, o) > ScoreOf(q, r)
            \/ ScoreOf(q, o) = ScoreOf(q, r) /\ KeyRank(o) < KeyRank(r)
        reference ==
            {r \in DOMAIN vstore :
                Cardinality({o \in DOMAIN vstore : before(o, r)}) < shown.top_k}
    IN  SearchedEnough =>
            /\ Len(shown.top_results) = shown.top_k
            /\ KeysOf(shown.top_results) = reference

\* C14 amended: the exact search returns exactly k distinct records of the
\* collection, each with its own score, and no record left out scores higher
\* than a record returned: the key set is that of a full sort truncated to
\* k for some order of the equal-score records.
C14_NoneLeftOutScoresHigher ==
    SearchedEnough =>
        /\ Len(shown.top_results) = shown.top_k
        /\ Cardinality(KeysOf(shown.top_results)) = shown.top_k
        /\ KeysOf(shown.top_results) \subseteq DOMAIN vstore
        /\ \A j \in 1..Len(shown.top_results) :
              shown.top_results[j].similarity
                  = ScoreOf(shown.query_vector, shown.top_results[j].key)
        /\ \A o \in DOMAIN vstore \ KeysOf(shown.top_results), r \in KeysOf(shown.top_results) :
              ScoreOf(shown.query_vector, o) <= ScoreOf(shown.query_vector, r)

C14_Witness ==
    /\ SearchedEnough
    /\ shown.top_k = 1
    /\ shown.keys = <<"vector:p1", "vector:p2">>
    /\ shown.top_results[1].key = "vector:p2"
    /\ ScoreOf(shown.query_vector, "vector:p1") < ScoreOf(shown.query_vector, "vector:p2")

\* the result at position k comes from a zero-magnitude vector: the stored
\* one or the query
ZeroMagnitudeAt(k) ==
    \/ Norm(StoredVector(shown.top_results[k].key)) = 0
    \/ Norm(shown.query_vector) = 0

\* C18 as stated: a zero-magnitude vector scores 0.0 without an error and
\* ranks as if identical to the query: no result of another score is ranked
\* ahead of it.
C18_ZeroRanksAsIdentical ==
    shown.kind = "results" =>
        \A k \in 1..Len(shown.top_results) :
            ZeroMagnitudeAt(k) =>
                /\ shown.top_results[k].similarity = 0
                /\ \A j \in 1..k :
                      shown.top_results[j].similarity = shown.top_results[k].similarity

\* C18 amended: a zero-magnitude vector scores the similarity 0.0 without an
\* error and, the order being higher = more similar, ranks as if orthogonal
\* to the query: behind every result of positive similarity and ahead of
\* every result of negative similarity.
C18_ZeroRanksAsOrthogonal ==
    shown.kind = "results" =>
        \A k \in 1..Len(shown.top_results) :
            ZeroMagnitudeAt(k) =>
                /\ shown.top_results[k].similarity = 0
                /\ \A j \in 1..Len(shown.top_results) :
                      /\ shown.top_results[j].similarity > 0 => j < k
                      /\ shown.top_results[j].similarity < 0 => j > k

C18_Witness ==
    /\ shown.kind = "results"
    /\ Len(shown.top_results) = 2
    /\ Norm(shown.query_vector) # 0
    /\ shown.top_results[1].similarity > 0
    /\ Norm(StoredVector(shown.top_results[2].key)) = 0
    /\ shown.top_results[2].similarity = 0

\* the last VectorManager call was a search whose query did not raise and
\* which matched no record
SearchedWithoutMatch ==
    /\ called # <<>>
    /\ called.method = "search_similar_products"
    /\ ~called.query_raised
    /\ Indexed = {}

\* C16: a similarity query that matches no record returns an empty result
\* list with a success outcome; a no-match is never reported as a failure.
C16_NoMatchIsSuccess ==
    SearchedWithoutMatch => reply = <<TRUE, <<>>>>

\* the last call constructed a VectorManager while idx:products existed
CreatedAgain ==
    /\ called # <<>>
    /\ called.method = "__init__"
    /\ called.existed

\* C21 as stated: registering a name that is already registered fails; it is
\* never a silent success.
C21_DuplicateFails ==
    CreatedAgain => called.raised

\* C21 amended: creating idx:products when it exists is a silent success:
\* the constructor raises only when the connection fails, and the index and
\* the hashes it covers are what they were.
C21_DuplicateIsSilentSuccess ==
    [][(called' # called /\ called'.method = "__init__" /\ called'.existed) =>
          /\ index' = index
          /\ index' = IDX_PRODUCTS
          /\ products' = products
          /\ called'.raised = ~called'.connected]_vars

C21_Witness ==
    /\ CreatedAgain
    /\ ~called.raised
    /\ products # <<>>

\* C22 as stated: a populated collection never returns to the empty or the
\* unregistered state.
C22_PopulatedNeverReverts ==
    [][products # <<>> => products' # <<>> /\ index' # <<>>]_vars

\* C22 amended: the index, once created, is never dropped, but the
\* collection it covers goes back to empty: a successful delete_product
\* removes its key and a successful clear_all_products removes every key.
C22_IndexStaysRecordsGo ==
    [][/\ index # <<>> => index' = index
       /\ (called' # <<>> /\ called'.method = "delete_product" /\ reply'[1]) =>
              /\ called'.key \in DOMAIN products
              /\ called'.key \notin DOMAIN products'
              /\ \A k \in DOMAIN products \ {called'.key} :
                    k \in DOMAIN products' /\ products'[k] = products[k]
       /\ (called' # <<>> /\ called'.method = "clear_all_products" /\ reply'[1]) =>
              products # <<>> /\ products' = <<>>]_vars

C22_Witness ==
    /\ called # <<>>
    /\ called.method = "delete_product"
    /\ reply[1]
    /\ products = <<>>
    /\ index # <<>>

\* the last call retrieved a key that holds a stored product
RetrievedStored ==
    /\ called # <<>>
    /\ called.method = "retrieve_product"
    /\ called.key \in DOMAIN products
    /\ reply # <<FALSE, "Error retrieving product">>

\* C28: retrieve_product(key) after a successful store_product(key, vector,
\* metadata) returns success with the stored vector and the stored
\* product_id, name and category.
C28_StoreRetrieveRoundTrip ==
    RetrievedStored =>
        /\ reply[1]
        /\ reply[2].vector = products[called.key].embedding
        /\ \A f \in {"product_id", "name", "category"} :
              reply[2][f] = DictGet(products[called.key], f, "")

\* ------------------------------------------------------------------------
\* store_to_all_containers: the sequential loop of optimize-index and the
\* three threads of optimize-query, each on its own database, given the same
\* record and the same outcome of every container's upsert
\* ------------------------------------------------------------------------

\* the records handed to the two fan-outs
FanDocs == {d \in Docs : d.has_keys /\ d.chunk_id \in {ChunkIdOf(1), ChunkIdOf(2)}}

\* what upsert_item does per container: TRUE when it accepts the record,
\* FALSE when it raises
Outcomes == [Containers -> BOOLEAN]

\* the for loop of the sequential store_to_all_containers from its j-th
\* container on: the exception of store_vector_document leaves the loop
RECURSIVE SequentialLoop(_, _, _, _)
SequentialLoop(j, stored, collected, call) ==
    IF j > Len(ContainerList)
    THEN [items |-> stored, result |-> [kind |-> "returned", results |-> collected]]
    ELSE LET c == ContainerList[j]
         IN  IF ~call.outcomes[c]
             THEN [items |-> stored, result |-> [kind |-> "raised"]]
             ELSE SequentialLoop(j + 1, [stored EXCEPT ![c] = @ \cup {call.doc.chunk_id}],
                                 collected @@ (c :> StoreResult(call.doc, c)), call)

\* the parallel store_to_all_containers: the three uploads are submitted and
\* the with block waits for all of them; future.result() raises when an
\* upload failed
ParallelUploads(stored, call) ==
    [items |-> [c \in Containers |->
                   IF call.outcomes[c] THEN stored[c] \cup {call.doc.chunk_id} ELSE stored[c]],
     result |-> IF \A c \in Containers : call.outcomes[c]
                THEN [kind |-> "returned",
                      results |-> [c \in Containers |-> StoreResult(call.doc, c)]]
                ELSE [kind |-> "raised"]]

\* the caller picks a record; the environment fixes what each container does
FanRequest ==
    /\ fan_request = <<>> \/ (seq_result # <<>> /\ par_result # <<>>)
    /\ \E doc \in FanDocs, outcomes \in Outcomes :
          fan_request' = [doc |-> doc, outcomes |-> outcomes]
    /\ seq_result' = <<>>
    /\ par_result' = <<>>
    /\ UNCHANGED <<seq_items, par_items, bulkVars, compareVars, vecVars, metricVars,
                   storeVars, agentVars>>

\* store_to_all_containers_sequential that goes on to the next container
\* after a failed upsert
store_to_all_containers_sequential_AttemptsAll ==
    /\ fan_request # <<>>
    /\ seq_result = <<>>
    /\ LET done == ParallelUploads(seq_items, fan_request)
       IN  /\ seq_items' = done.items
           /\ seq_result' = done.result
    /\ UNCHANGED <<fan_request, par_items, par_result, bulkVars, compareVars, vecVars,
                   metricVars, storeVars, agentVars>>

\* store_to_all_containers of optimize-index
store_to_all_containers_sequential ==
    /\ fan_request # <<>>
    /\ seq_result = <<>>
    /\ LET done == SequentialLoop(1, seq_items, <<>>, fan_request)
       IN  /\ seq_items' = done.items
           /\ seq_result' = done.result
    /\ UNCHANGED <<fan_request, par_items, par_result, bulkVars, compareVars, vecVars,
                   metricVars, storeVars, agentVars>>

\* store_to_all_containers of optimize-query
store_to_all_containers_parallel ==
    /\ fan_request # <<>>
    /\ par_result = <<>>
    /\ LET done == ParallelUploads(par_items, fan_request)
       IN  /\ par_items' = done.items
           /\ par_result' = done.result
    /\ UNCHANGED <<fan_request, seq_items, seq_result, bulkVars, compareVars, vecVars,
                   metricVars, storeVars, agentVars>>

InitFanout ==
    /\ BulkIdle
    /\ CompareIdle
    /\ VecIdle
    /\ MetricIdle
    /\ OthersIdle

NextFanout ==
    \/ FanRequest
    \/ store_to_all_containers_sequential
    \/ store_to_all_containers_parallel

SpecFanout == InitFanout /\ [][NextFanout]_vars

\* both fan-outs have handled the request
BothRan == seq_result # <<>> /\ par_result # <<>>

\* every container accepts the record of the request
AllAccept == \A c \in Containers : fan_request.outcomes[c]

\* C29 as stated: for the same record and outcomes the two fan-outs leave
\* the collections in the same state and both return the same map or both
\* raise, also when a container's insert fails.
C29_FanoutsEquivalent ==
    BothRan => seq_items = par_items /\ seq_result = par_result

\* C29 amended: the two agree when every insert succeeds. When one fails
\* both raise, the parallel one has written every container that accepts
\* the record, and the sequential one has stopped at the first failure: a
\* record is in a container of the sequential database only if it is in
\* every earlier container and in that container of the parallel database.
C29_EquivalentOnSuccess ==
    /\ \A j \in 2..Len(ContainerList) :
          seq_items[ContainerList[j]] \subseteq seq_items[ContainerList[j - 1]]
    /\ BothRan =>
          /\ \A c \in Containers : seq_items[c] \subseteq par_items[c]
          /\ seq_result.kind = par_result.kind
          /\ AllAccept =>
                /\ seq_result = par_result
                /\ seq_result.kind = "returned"
                /\ \A c \in Containers :
                      fan_request.doc.chunk_id \in seq_items[c] \cap par_items[c]
          /\ ~AllAccept =>
                /\ seq_result.kind = "raised"
                /\ \A c \in Containers :
                      fan_request.outcomes[c] => fan_request.doc.chunk_id \in par_items[c]

C29_Witness ==
    /\ BothRan
    /\ ~fan_request.outcomes[CONTAINER_FLAT]
    /\ fan_request.outcomes[CONTAINER_DISKANN]
    /\ fan_request.doc.chunk_id \in par_items[CONTAINER_DISKANN]
    /\ fan_request.doc.chunk_id \notin seq_items[CONTAINER_DISKANN]

\* ------------------------------------------------------------------------
\* store_vector_document on one container whose partition key is /documentId
\* ------------------------------------------------------------------------

\* the largest value of the clock that datetime.utcnow() reads
MaxClock == 2

StoreChunkIds == {ChunkIdOf(1), ChunkIdOf(2)}

DocumentIds == {"doc1", "doc2"}

Contents == {"a", "b"}

\* the key under which the container keeps an item: its id within its
\* logical partition
ItemKey(item) == <<item.id, item.documentId>>

\* container.upsert_item that adds the item like create_item without the
\* conflict
UpsertItem_Adds(stored, document) ==
    stored \cup {document}

\* container.upsert_item(body=document): the item of the same id and
\* partition key is replaced, every other item stays
UpsertItem(stored, document) ==
    {x \in stored : ItemKey(x) # ItemKey(document)} \cup {document}

\* store_vector_document(document_id, chunk_id, content, embedding, metadata)
store_vector_document ==
    \E chunk_id \in StoreChunkIds, document_id \in DocumentIds, content \in Contents :
      LET document == [id |-> chunk_id, documentId |-> document_id, content |-> content,
                       createdAt |-> utcnow]
      IN  /\ collection' = UpsertItem(collection, document)
          /\ upserted' = [document |-> document,
                          existed |-> \E x \in collection : ItemKey(x) = ItemKey(document),
                          returned |-> [chunk_id |-> chunk_id, document_id |-> document_id]]
          /\ UNCHANGED <<utcnow, bulkVars, compareVars, vecVars, metricVars, fanVars, agentVars>>

\* time passes between two calls
Tick ==
    /\ utcnow < MaxClock
    /\ utcnow' = utcnow + 1
    /\ UNCHANGED <<collection, upserted, bulkVars, compareVars, vecVars, metricVars, fanVars,
                   agentVars>>

InitStore ==
    /\ BulkIdle
    /\ CompareIdle
    /\ VecIdle
    /\ MetricIdle
    /\ OthersIdle

NextStore ==
    \/ store_vector_document
    \/ Tick

SpecStore == InitStore /\ [][NextStore]_vars

\* C23 as stated: no two records of the collection share the same id.
C23_UniqueIds ==
    \A x, y \in collection : x.id = y.id => x = y

\* an item without the time of its store
Undated(item) == [id |-> item.id, documentId |-> item.documentId, content |-> item.content]

\* C23 amended: no two records of the collection share the same id and
\* partition key; a store whose id and partition key are present replaces
\* that record and adds none, and a repeated store leaves the same records
\* but for the createdAt of the one it replaced.
C23_UniqueIdsPerPartition ==
    /\ [](\A x, y \in collection : ItemKey(x) = ItemKey(y) => x = y)
    /\ [][(upserted' # upserted /\ upserted'.existed) =>
             /\ Cardinality(collection') = Cardinality(collection)
             /\ {ItemKey(x) : x \in collection'} = {ItemKey(x) : x \in collection}
             /\ upserted'.document \in collection'
             /\ (Undated(upserted'.document) \in {Undated(x) : x \in collection} =>
                    {Undated(x) : x \in collection'} = {Undated(x) : x \in collection})]_vars

C23_Witness ==
    /\ upserted # <<>>
    /\ upserted.existed
    /\ \E x, y \in collection : x.id = y.id /\ x.documentId # y.documentId
    /\ \E x \in collection : x.createdAt > 0

\* ------------------------------------------------------------------------
\* agent_tools.py: the task checkpoints of the agent's memory
\* ------------------------------------------------------------------------

\* the number of save_task_state calls of a run
MaxSaves == 3

ConversationIds == {1, 2}

TaskNames == {"research"}

Statuses == {"in_progress", "completed"}

CheckpointData == {"step1", "step2"}

\* the rows WHERE conversation_id = %s AND task_name = %s
RowsOf(rows, conversation_id, task_name) ==
    {r \in rows : r.conversation_id = conversation_id /\ r.task_name = task_name}

\* ON CONFLICT ... DO NOTHING in place of DO UPDATE
OnConflictDoUpdate_DoNothing(rows, conflict, status, checkpoint_data, now) ==
    rows

\* ON CONFLICT (conversation_id, task_name) DO UPDATE SET status =
\* EXCLUDED.status, checkpoint_data = EXCLUDED.checkpoint_data, updated_at =
\* CURRENT_TIMESTAMP: the table after the update of the row in conflict
OnConflictDoUpdate(rows, conflict, status, checkpoint_data, now) ==
    (rows \ conflict) \cup
        {[r EXCEPT !.status = status, !.checkpoint_data = checkpoint_data, !.updated_at = now] :
            r \in conflict}

\* save_task_state(conversation_id, task_name, status, checkpoint_data):
\* the statement is rejected when the table has no unique constraint on the
\* pair that ON CONFLICT names; the sequence of the id column advances with
\* every statement that runs
save_task_state ==
    \E conversation_id \in ConversationIds, task_name \in TaskNames, status \in Statuses,
       checkpoint_data \in CheckpointData :
      LET pair == <<conversation_id, task_name>>
          conflict == RowsOf(task_checkpoints, conversation_id, task_name)
          inserted == [id |-> nextval, conversation_id |-> conversation_id,
                       task_name |-> task_name, status |-> status,
                       checkpoint_data |-> checkpoint_data,
                       created_at |-> current_timestamp, updated_at |-> current_timestamp]
          saves == IF pair \in DOMAIN last_saved THEN last_saved[pair].saves ELSE 0
      IN  /\ nextval <= MaxSaves
          /\ IF ~unique_pair
             THEN /\ task_state' = [method |-> "save_task_state", pair |-> pair,
                                    returned |-> "raised"]
                  /\ UNCHANGED <<task_checkpoints, nextval, last_saved>>
             ELSE /\ task_checkpoints' =
                        IF conflict = {} THEN task_checkpoints \cup {inserted}
                        ELSE OnConflictDoUpdate(task_checkpoints, conflict, status,
                                                checkpoint_data, current_timestamp)
                  /\ nextval' = nextval + 1
                  /\ last_saved' = (pair :> [status |-> status,
                                             checkpoint_data |-> checkpoint_data,
                                             saves |-> saves + 1]) @@ last_saved
                  /\ \E row \in RowsOf(task_checkpoints', conversation_id, task_name) :
                        task_state' = [method |-> "save_task_state", pair |-> pair,
                                       returned |-> [checkpoint_id |-> row.id,
                                                     updated_at |-> row.updated_at]]
          /\ UNCHANGED <<unique_pair, current_timestamp, bulkVars, compareVars, vecVars,
                         metricVars, fanVars, storeVars>>

\* get_task_state(conversation_id, task_name): the first row of ORDER BY
\* updated_at DESC LIMIT 1; found is FALSE when it returns None
get_task_state ==
    \E conversation_id \in ConversationIds, task_name \in TaskNames :
      LET rows == RowsOf(task_checkpoints, conversation_id, task_name)
          latest == {r \in rows : \A q \in rows : q.updated_at <= r.updated_at}
      IN  /\ IF rows = {}
             THEN task_state' = [method |-> "get_task_state",
                                 pair |-> <<conversation_id, task_name>>, found |-> FALSE,
                                 returned |-> <<>>]
             ELSE \E row \in latest :
                    task_state' = [method |-> "get_task_state",
                                   pair |-> <<conversation_id, task_name>>, found |-> TRUE,
                                   returned |-> [checkpoint_id |-> row.id, status |-> row.status,
                                                 checkpoint_data |-> row.checkpoint_data,
                                                 created_at |-> row.created_at,
                                                 updated_at |-> row.updated_at]]
          /\ UNCHANGED <<unique_pair, task_checkpoints, nextval, current_timestamp, last_saved,
                         bulkVars, compareVars, vecVars, metricVars, fanVars, storeVars>>

\* the clock of the database advances between two transactions
AgentTick ==
    /\ current_timestamp < MaxClock
    /\ current_timestamp' = current_timestamp + 1
    /\ UNCHANGED <<unique_pair, task_checkpoints, nextval, last_saved, task_state, bulkVars,
                   compareVars, vecVars, metricVars, fanVars, storeVars>>

\* the table is empty; whether it has the unique constraint is the schema's
\* choice
InitAgent ==
    /\ BulkIdle
    /\ CompareIdle
    /\ VecIdle
    /\ MetricIdle
    /\ FanIdle
    /\ StoreIdle
    /\ unique_pair \in BOOLEAN
    /\ task_checkpoints = {}
    /\ nextval = 1
    /\ current_timestamp = 0
    /\ last_saved = <<>>
    /\ task_state = <<>>

NextAgent ==
    \/ save_task_state
    \/ get_task_state
    \/ AgentTick

SpecAgent == InitAgent /\ [][NextAgent]_vars

\* the pairs that were saved again after their checkpoint existed
SavedAgain == {pair \in DOMAIN last_saved : last_saved[pair].saves >= 2}

\* C24: after save_task_state is called again for a pair that has a
\* checkpoint, get_task_state for the pair returns the status and the
\* checkpoint_data of the most recent save, and the pair still has a single
\* checkpoint.
C24_LatestSaveWins ==
    \A pair \in SavedAgain :
        /\ Cardinality(RowsOf(task_checkpoints, pair[1], pair[2])) = 1
        /\ (task_state.method = "get_task_state" /\ task_state.pair = pair) =>
              /\ task_state.found
              /\ task_state.returned.status = last_saved[pair].status
              /\ task_state.returned.checkpoint_data = last_saved[pair].checkpoint_data

C24_Witness ==
    /\ task_state # <<>>
    /\ task_state.method = "get_task_state"
    /\ task_state.pair \in SavedAgain
    /\ task_state.found
    /\ task_state.returned.status = "completed"
    /\ task_state.returned.created_at < task_state.returned.updated_at

====
